---- MODULE Spec2Model ----
(***************************************************************************)
(* Model of the movie-review Flask application (src/app.py): the review    *)
(* store, the flask-caching view cache in front of movie_details, the      *)
(* predict / delete_review / profile / movie handlers, and the requests    *)
(* that run them concurrently in one process.                              *)
(***************************************************************************)
EXTENDS Integers, Sequences, FiniteSets, TLC

(* ------------------------------ bounds -------------------------------- *)

\* number of requests the server works on at the same time
NumProcs == 2
\* number of Review rows ever inserted in a run
MaxReviews == 2
\* number of clock steps in a run
MaxTicks == 1
\* longest totalResults string the upstream search answers with
MaxDigits == 2

(* --------------------------- program constants ------------------------ *)

\* @cache.cached(timeout=86400)
CACHE_TIMEOUT == 86400
\* math.ceil(total_results / 10)
PAGE_SIZE == 10

\* seconds the clock advances in one step of the model
TickSeconds == CACHE_TIMEOUT

Procs == 1 .. NumProcs
None == "None"
Items == {"tt0111161", "tt0068646"}
Texts == {"this movie was wonderful", "this movie was terrible", "this movie was a movie"}
Metas == {"meta_a", "meta_b"}

(* -------------------------------- state ------------------------------- *)

VARIABLES
  reviews,     \* the review table: a set of Review rows
  nextId,      \* the next primary key of the review table
  cache,       \* the cache backend's dict: key -> [value, expires]
  now,         \* wall clock, in seconds
  pc,          \* where each request is in its handler
  args,        \* each request's inputs (form fields, path, current_user)
  local,       \* each request's local variables
  resp,        \* each finished request's response
  settled,     \* ids of reviews whose predict request has finished
  removed,     \* ids of reviews whose delete_review request has finished
  lastStored,  \* per item, the view the latest cache.set stored
  storedAt,    \* per item, the time of the latest cache.set (-1: none yet)
  search,      \* the movie search handler's inputs and outcome
  users        \* the user table: a set of User rows

vars ==
  <<reviews, nextId, cache, now, pc, args, local, resp, settled, removed,
    lastStored, storedAt, search, users>>

(* ------------------------------ data model ---------------------------- *)

\* rows of the user table when the accounts of the admin and of one user
\* have been registered, in this order
UserTable ==
  { [id |-> 1, email |-> "admin@admin.com", is_admin |-> TRUE],
    [id |-> 2, email |-> "user@example.com", is_admin |-> FALSE] }

UserIds == { u.id : u \in UserTable }

\* User.query.get(int(user_id)) of load_user
UserRow(uid) == CHOOSE u \in users : u.id = uid

\* login_required: current_user is an account of the user table
LoggedIn(uid) == \E u \in users : u.id = uid

\* model.predict_proba([text])[0]: the two class probabilities, in percent
PredictProba(text) ==
  CASE text = "this movie was wonderful" -> <<10, 90>>
    [] text = "this movie was terrible" -> <<80, 20>>
    [] OTHER -> <<50, 50>>

\* Confidence as the probability of class 1 (probabilities[0][1])
ConfidenceOfClassOne(text) == PredictProba(text)[2]

\* np.max(probabilities)
Confidence(text) ==
  LET p == PredictProba(text) IN IF p[1] >= p[2] THEN p[1] ELSE p[2]

\* Predict with the two class indices exchanged
PredictClassZero(text) ==
  LET p == PredictProba(text) IN IF p[1] > p[2] THEN 1 ELSE 0

\* model.predict([text])[0]: the class index (0 or 1) with the larger probability
Predict(text) ==
  LET p == PredictProba(text) IN IF p[2] > p[1] THEN 1 ELSE 0

\* 'Positive' if prediction == 1 else 'Negative'
PredictionText(text) == IF Predict(text) = 1 THEN "Positive" ELSE "Negative"

\* Review(content=..., sentiment=..., confidence=..., user_id=..., imdb_id=...)
NewReview(rid, text, uid, imdb_id) ==
  [id |-> rid, content |-> text, sentiment |-> PredictionText(text),
   confidence |-> Confidence(text), user_id |-> uid, imdb_id |-> imdb_id]

MaxId(S) == CHOOSE r \in S : \A q \in S : q.id <= r.id

RECURSIVE OrderByIdDesc(_)
\* .order_by(Review.id.desc()).all()
OrderByIdDesc(S) ==
  IF S = {} THEN <<>> ELSE <<MaxId(S)>> \o OrderByIdDesc(S \ {MaxId(S)})

\* one row of db.session.query(Review, User).join(User)
JoinUser(r) == <<r, UserRow(r.user_id)>>

\* query(Review, User).join(User).filter(Review.imdb_id == imdb_id).order_by(Review.id.desc())
ReviewsWithUsers(store, imdb_id) ==
  LET rows == OrderByIdDesc({ r \in store : r.imdb_id = imdb_id })
  IN [i \in 1 .. Len(rows) |-> JoinUser(rows[i])]

(* ------------------------- URLs and cache keys ------------------------ *)

\* @app.route("/app/movie/<string:imdb_id>"): the path of a detail request
RoutePath(imdb_id) == <<"/app/movie/", imdb_id>>

\* str() of the undecorated view function, as url_for's string converter prints it
FunctionRepr == "<function movie_details>"

\* url_for('movie_details', imdb_id=v): None values are dropped, and the rule
\* cannot be built without imdb_id (werkzeug BuildError)
UrlForMovieDetails(v) == IF v = None THEN "BuildError" ELSE RoutePath(v)

\* flask-caching's key of a @cache.cached view: key_prefix "view/%s" % path
CachedKey(path) == <<"view/", path>>

\* the key movie_details' wrapper reads and writes: "view/%s" % request.path
RequestKey(imdb_id) == CachedKey(RoutePath(imdb_id))

\* make_cache_key of a @cache.cached view, called with positional arguments:
\* the view's first parameter (imdb_id) is bound to the first of them
MakeCacheKey(posargs) == CachedKey(UrlForMovieDetails(posargs[1]))

\* cache.delete_memoized(movie_details, imdb_id) deletes the key
\* f.make_cache_key(f.uncached, imdb_id): written for @cache.memoize, whose
\* make_cache_key takes the function first; on a @cache.cached view the
\* function itself lands in the imdb_id parameter
DeleteMemoizedKey(imdb_id) == MakeCacheKey(<<FunctionRepr, imdb_id>>)

(* ------------------- the 'simple' cache backend (a dict) -------------- *)

\* Python's None where a response or a cached value is expected
NoRv == [status |-> 0]

\* Python's None where the upstream's JSON answer is expected
NoMovieData == [Response |-> None]

\* CacheGet that takes the metadata from the entry and leaves its review list
CacheGetMixed(c, key, t) ==
  IF key \in DOMAIN c /\ c[key].expires > t
    THEN [c[key].value EXCEPT !.reviews_with_users = <<>>]
    ELSE NoRv

\* CacheGet with the expiry comparison turned round
CacheGetFlipped(c, key, t) ==
  IF key \in DOMAIN c /\ c[key].expires < t THEN c[key].value ELSE NoRv

\* SimpleCache.get: the value if the key is present and expires > time()
CacheGet(c, key, t) ==
  IF key \in DOMAIN c /\ c[key].expires > t THEN c[key].value ELSE NoRv

\* CacheSet with twice the timeout
CacheSetTwoDays(c, key, value, t) ==
  [k \in DOMAIN c \cup {key} |->
     IF k = key THEN [value |-> value, expires |-> t + 2 * CACHE_TIMEOUT] ELSE c[k]]

\* SimpleCache.set with timeout: expires = time() + timeout
CacheSet(c, key, value, t) ==
  [k \in DOMAIN c \cup {key} |->
     IF k = key THEN [value |-> value, expires |-> t + CACHE_TIMEOUT] ELSE c[k]]

\* CacheDelete as cache.clear(): every entry goes
CacheClear(c, key) == <<>>

\* SimpleCache.delete: self._cache.pop(key, None)
CacheDelete(c, key) == [k \in DOMAIN c \ {key} |-> c[k]]

\* render_template('movie_details.html', movie_data=..., reviews_with_users=...)
RenderDetails(movie_data, rows) ==
  [status |-> 200, movie_data |-> movie_data, reviews_with_users |-> rows]

(* ---------------------------- initial state --------------------------- *)

NoArgs == [kind |-> "idle"]
NoLocal == [trail |-> <<>>]
NoResp == NoRv
NoSearch == [ran |-> FALSE]

Init ==
  /\ reviews = {}
  /\ nextId = 1
  /\ cache = <<>>
  /\ now = 0
  /\ pc = [p \in Procs |-> "idle"]
  /\ args = [p \in Procs |-> NoArgs]
  /\ local = [p \in Procs |-> NoLocal]
  /\ resp = [p \in Procs |-> NoResp]
  /\ settled = {}
  /\ removed = {}
  /\ lastStored = [x \in Items |-> NoRv]
  /\ storedAt = [x \in Items |-> -1]
  /\ search = NoSearch
  /\ users = UserTable

\* the state after db.create_all() on a new database: no account yet
InitEmpty ==
  /\ reviews = {}
  /\ nextId = 1
  /\ cache = <<>>
  /\ now = 0
  /\ pc = [p \in Procs |-> "idle"]
  /\ args = [p \in Procs |-> NoArgs]
  /\ local = [p \in Procs |-> NoLocal]
  /\ resp = [p \in Procs |-> NoResp]
  /\ settled = {}
  /\ removed = {}
  /\ lastStored = [x \in Items |-> NoRv]
  /\ storedAt = [x \in Items |-> -1]
  /\ search = NoSearch
  /\ users = {}

ServerVars == <<reviews, nextId, cache, now, settled, removed, lastStored, storedAt>>

(* ------------------------------- register ----------------------------- *)

\* the email addresses of the registration form
Emails == {"admin@admin.com", "user@example.com", "Admin@Admin.com"}

\* IsAdminUser comparing without regard to case
IsAdminUserAnyCase(email) == email \in {"admin@admin.com", "Admin@Admin.com"}

\* is_admin_user = True if email == 'admin@admin.com' else False
IsAdminUser(email) == email = "admin@admin.com"

\* POST /register of a client that is not logged in: the new User row is
\* committed, unless the email is taken (unique=True), when the commit raises
Register(p, email) ==
  LET user == [id |-> Cardinality(users) + 1, email |-> email,
               is_admin |-> IsAdminUser(email)]
  IN /\ pc[p] = "idle"
     /\ pc' = [pc EXCEPT ![p] = "done"]
     /\ args' = [args EXCEPT ![p] = [kind |-> "register", email |-> email]]
     /\ IF \E u \in users : u.email = email
          THEN /\ users' = users
               /\ resp' = [resp EXCEPT ![p] = [status |-> 500, error |-> "IntegrityError"]]
               /\ local' = [local EXCEPT ![p] = [trail |-> <<"IntegrityError">>]]
          ELSE /\ users' = users \cup {user}
               /\ resp' = [resp EXCEPT ![p] = [status |-> 302, location |-> <<"/login">>]]
               /\ local' = [local EXCEPT ![p] = [trail |-> <<"db.commit">>]]
     /\ UNCHANGED <<ServerVars, search>>

(* --------------------- movie_details (cached view) -------------------- *)

\* requests.get(api_url).json() for ?i=<imdb_id>: the item's metadata, an
\* answer with Response == 'False', or a RequestException
DetailAnswers(imdb_id) ==
  { [Response |-> "True", imdbID |-> imdb_id, Plot |-> m] : m \in Metas }
    \cup { [Response |-> "False"], [Response |-> "RequestException"] }

\* movie_data after the try block: None for Response 'False' and after the
\* caught RequestException
MovieData(answer) == IF answer.Response = "True" THEN answer ELSE NoMovieData

\* The cached wrapper's cache.get; on a miss the view body runs up to the end
\* of its try block.
DetailsGet(p, imdb_id, answer) ==
  LET rv == CacheGet(cache, RequestKey(imdb_id), now)
      a == [kind |-> "movie_details", imdb_id |-> imdb_id]
      md == MovieData(answer)
  IN /\ pc[p] = "idle"
     /\ \E uid \in UserIds : LoggedIn(uid)
     /\ args' = [args EXCEPT ![p] = a]
     /\ IF rv # NoRv
          THEN /\ pc' = [pc EXCEPT ![p] = "done"]
               /\ resp' = [resp EXCEPT ![p] = rv]
               /\ local' = [local EXCEPT ![p] =
                    [trail |-> <<"cache.get">>, seen |-> settled, gone |-> removed]]
          ELSE /\ pc' = [pc EXCEPT ![p] = IF md # NoMovieData THEN "md_query" ELSE "md_set"]
               /\ resp' = resp
               /\ local' = [local EXCEPT ![p] =
                    [trail |-> <<"cache.get", "requests.get">>, seen |-> settled,
                     gone |-> removed, movie_data |-> md, reviews |-> <<>>,
                     rv |-> RenderDetails(md, <<>>)]]
     /\ UNCHANGED <<ServerVars, search, users>>

\* if movie_data: the joined review query, then render_template
DetailsQuery(p) ==
  /\ pc[p] = "md_query"
  /\ pc' = [pc EXCEPT ![p] = "md_set"]
  /\ local' = [local EXCEPT ![p] =
       [@ EXCEPT !.trail = Append(@, "db.query"),
                 !.reviews = ReviewsWithUsers(reviews, args[p].imdb_id),
                 !.rv = RenderDetails(local[p].movie_data,
                          ReviewsWithUsers(reviews, args[p].imdb_id))]]
  /\ UNCHANGED <<ServerVars, args, resp, search, users>>

\* the cached wrapper's cache.set(cache_key, rv, timeout) and return
DetailsSet(p) ==
  /\ pc[p] = "md_set"
  /\ cache' = CacheSet(cache, RequestKey(args[p].imdb_id), local[p].rv, now)
  /\ lastStored' = [lastStored EXCEPT ![args[p].imdb_id] = local[p].rv]
  /\ storedAt' = [storedAt EXCEPT ![args[p].imdb_id] = now]
  /\ pc' = [pc EXCEPT ![p] = "done"]
  /\ resp' = [resp EXCEPT ![p] = local[p].rv]
  /\ local' = [local EXCEPT ![p] = [@ EXCEPT !.trail = Append(@, "cache.set")]]
  /\ UNCHANGED <<reviews, nextId, now, settled, removed, args, search, users>>

(* ------------------------------- predict ------------------------------ *)

\* f'{float(confidence)*100:.1f}': the percentage with one decimal place
FormatPercent(c) == <<c, ".", 0>>

\* jsonify({...}) of the is_ajax branch
PredictJson(text) ==
  [status |-> 200,
   json |-> [status |-> "success", prediction_text |-> PredictionText(text),
             prediction |-> Predict(text),
             confidence |-> FormatPercent(Confidence(text))]]

\* the handler's return: jsonify for is_ajax == 'true', else flash and
\* redirect(url_for('movie_details', imdb_id=imdb_id))
PredictResponse(a) ==
  IF a.is_ajax
    THEN PredictJson(a.review_text)
    ELSE IF UrlForMovieDetails(a.imdb_id) = "BuildError"
           THEN [status |-> 500, error |-> "BuildError"]
           ELSE [status |-> 302, location |-> UrlForMovieDetails(a.imdb_id)]

\* the trail of a response: Reported only when the handler returned one
Reported(trail, r) == IF r.status = 500 THEN trail ELSE Append(trail, "Reported")

\* request.form is read and the model classifies the text
PredictStart(p, uid, text, imdb_id, is_ajax) ==
  /\ pc[p] = "idle"
  /\ LoggedIn(uid)
  /\ nextId <= MaxReviews
  /\ pc' = [pc EXCEPT ![p] = "pr_commit"]
  /\ args' = [args EXCEPT ![p] =
       [kind |-> "predict", user |-> uid, review_text |-> text,
        imdb_id |-> imdb_id, is_ajax |-> is_ajax]]
  /\ local' = [local EXCEPT ![p] = [trail |-> <<"Received", "Classified">>]]
  /\ UNCHANGED <<ServerVars, resp, search, users>>

\* Commit that leaves the pending rows in the table though it raised
CommitPartial(store, pending, commit_error) == store \cup pending

\* db.session.commit() of a session with the added rows pending: they are in
\* the table afterwards, unless the commit raises and the transaction is
\* rolled back
Commit(store, pending, commit_error) ==
  IF commit_error THEN store ELSE store \cup pending

\* db.session.add(review); db.session.commit(); without an imdb_id the
\* handler goes on to its return. An exception of the commit is not caught
\* and ends the request.
PredictCommit(p, commit_error) ==
  LET a == args[p]
      review == NewReview(nextId, a.review_text, a.user, a.imdb_id)
      r == PredictResponse(a)
  IN /\ pc[p] = "pr_commit"
     /\ reviews' = Commit(reviews, {review}, commit_error)
     /\ nextId' = IF commit_error THEN nextId ELSE nextId + 1
     /\ IF commit_error
          THEN /\ pc' = [pc EXCEPT ![p] = "done"]
               /\ local' = [local EXCEPT ![p] =
                    [trail |-> Append(local[p].trail, "CommitError"), review |-> review]]
               /\ resp' = [resp EXCEPT ![p] = [status |-> 500, error |-> "commit"]]
               /\ settled' = settled
          ELSE IF a.imdb_id # None
               THEN /\ pc' = [pc EXCEPT ![p] = "pr_invalidate"]
                    /\ local' = [local EXCEPT ![p] =
                         [trail |-> Append(local[p].trail, "Persisted"), review |-> review]]
                    /\ UNCHANGED <<resp, settled>>
               ELSE /\ pc' = [pc EXCEPT ![p] = "done"]
                    /\ local' = [local EXCEPT ![p] =
                         [trail |-> Reported(Append(local[p].trail, "Persisted"), r),
                          review |-> review]]
                    /\ resp' = [resp EXCEPT ![p] = r]
                    /\ settled' = settled \cup {review.id}
     /\ UNCHANGED <<cache, now, removed, lastStored, storedAt, args, search, users>>

\* if imdb_id: cache.delete_memoized(movie_details, imdb_id), then the return;
\* an exception of the cache backend is not caught and ends the request
PredictInvalidate(p, backend_error) ==
  LET a == args[p]
      r == PredictResponse(a)
  IN /\ pc[p] = "pr_invalidate"
     /\ pc' = [pc EXCEPT ![p] = "done"]
     /\ settled' = settled \cup {local[p].review.id}
     /\ IF backend_error
          THEN /\ resp' = [resp EXCEPT ![p] = [status |-> 500, error |-> "cache"]]
               /\ local' = [local EXCEPT ![p] = [@ EXCEPT !.trail = Append(@, "CacheError")]]
               /\ cache' = cache
          ELSE /\ cache' = CacheDelete(cache, DeleteMemoizedKey(a.imdb_id))
               /\ resp' = [resp EXCEPT ![p] = r]
               /\ local' = [local EXCEPT ![p] = [@ EXCEPT !.trail =
                    Reported(Append(@, "Cache Invalidated"), r)]]
     /\ UNCHANGED <<reviews, nextId, now, removed, lastStored, storedAt, args, search, users>>

(* ---------------------------- delete_review --------------------------- *)

\* QueryGet falling back to the rows of the table when the key matches none
QueryGetAny(store, review_id) ==
  IF \E r \in store : r.id = review_id THEN { r \in store : r.id = review_id } ELSE store

\* Review.query.get(review_id): the rows with that primary key, none or one
QueryGet(store, review_id) == { r \in store : r.id = review_id }

\* admin_required, then Review.query.get_or_404(review_id)
DeleteStart(p, uid, review_id) ==
  LET found == QueryGet(reviews, review_id)
      a == [kind |-> "delete_review", user |-> uid, review_id |-> review_id]
  IN /\ pc[p] = "idle"
     /\ LoggedIn(uid)
     /\ args' = [args EXCEPT ![p] = a]
     /\ IF ~UserRow(uid).is_admin
          THEN /\ pc' = [pc EXCEPT ![p] = "done"]
               /\ resp' = [resp EXCEPT ![p] = [status |-> 302, location |-> <<"/app">>]]
               /\ local' = [local EXCEPT ![p] = [trail |-> <<"admin_required">>]]
          ELSE IF found = {}
                 THEN /\ pc' = [pc EXCEPT ![p] = "done"]
                      /\ resp' = [resp EXCEPT ![p] = [status |-> 404]]
                      /\ local' = [local EXCEPT ![p] = [trail |-> <<"get_or_404">>]]
                 ELSE LET review == CHOOSE r \in found : TRUE
                      IN /\ pc' = [pc EXCEPT ![p] =
                              IF review.imdb_id # None THEN "dr_invalidate" ELSE "dr_commit"]
                         /\ resp' = resp
                         /\ local' = [local EXCEPT ![p] =
                              [trail |-> <<"get_or_404">>, review |-> review]]
     /\ UNCHANGED <<ServerVars, search, users>>

\* if review_to_delete.imdb_id: cache.delete_memoized(movie_details, ...)
DeleteInvalidate(p, backend_error) ==
  /\ pc[p] = "dr_invalidate"
  /\ IF backend_error
       THEN /\ pc' = [pc EXCEPT ![p] = "done"]
            /\ resp' = [resp EXCEPT ![p] = [status |-> 500, error |-> "cache"]]
            /\ local' = [local EXCEPT ![p] = [@ EXCEPT !.trail = Append(@, "CacheError")]]
            /\ cache' = cache
       ELSE /\ pc' = [pc EXCEPT ![p] = "dr_commit"]
            /\ cache' = CacheDelete(cache, DeleteMemoizedKey(local[p].review.imdb_id))
            /\ local' = [local EXCEPT ![p] = [@ EXCEPT !.trail = Append(@, "invalidate")]]
            /\ resp' = resp
  /\ UNCHANGED <<reviews, nextId, now, settled, removed, lastStored, storedAt, args, search, users>>

\* db.session.delete(review_to_delete); db.session.commit(); redirect to admin.
\* When another request deleted the row meanwhile, the DELETE matches no row:
\* the ORM either warns and goes on or raises.
DeleteCommit(p, stale_raises) ==
  LET review == local[p].review
  IN /\ pc[p] = "dr_commit"
     /\ pc' = [pc EXCEPT ![p] = "done"]
     /\ IF review \in reviews
          THEN /\ reviews' = reviews \ {review}
               /\ removed' = removed \cup {review.id}
               /\ resp' = [resp EXCEPT ![p] = [status |-> 302, location |-> <<"/admin">>]]
               /\ local' = [local EXCEPT ![p] = [@ EXCEPT !.trail = Append(@, "delete")]]
          ELSE /\ resp' = [resp EXCEPT ![p] =
                    IF stale_raises THEN [status |-> 500, error |-> "StaleData"]
                    ELSE [status |-> 302, location |-> <<"/admin">>]]
               /\ UNCHANGED <<reviews, removed, local>>
     /\ UNCHANGED <<nextId, cache, now, settled, lastStored, storedAt, args, search, users>>

(* -------------------------------- profile ----------------------------- *)

RECURSIVE Gcd(_, _)
Gcd(a, b) == IF b = 0 THEN a ELSE Gcd(b, a % b)

\* the number n/d in lowest terms (d > 0)
Frac(n, d) == LET g == Gcd(n, d) IN IF g = 0 THEN <<0, 1>> ELSE <<n \div g, d \div g>>

\* (count / total_reviews) * 100, as an exact fraction
Percent(count, total) ==
  LET q == Frac(count, total) IN Frac(q[1] * 100, q[2])

\* PositiveCount matching the training data's lower-case label
PositiveCountLower(rows) == Cardinality({ i \in 1 .. Len(rows) : rows[i].sentiment = "positive" })

\* sum(1 for r in reviews if r.sentiment == 'Positive')
PositiveCount(rows) == Cardinality({ i \in 1 .. Len(rows) : rows[i].sentiment = "Positive" })

\* the stats dict of profile()
Stats(rows) ==
  LET total_reviews == Len(rows)
      positive_count == PositiveCount(rows)
      negative_count == total_reviews - positive_count
  IN [total |-> total_reviews,
      positive |-> positive_count,
      negative |-> negative_count,
      positive_percent |->
        IF total_reviews > 0 THEN Percent(positive_count, total_reviews) ELSE <<0, 1>>,
      negative_percent |->
        IF total_reviews > 0 THEN Percent(negative_count, total_reviews) ELSE <<0, 1>>]

\* Review.query.filter_by(user_id=current_user.id).order_by(Review.id.desc()).all()
ReviewsOfUser(store, uid) == OrderByIdDesc({ r \in store : r.user_id = uid })

\* the whole handler: one query, then the statistics and the page
Profile(p, uid) ==
  LET rows == ReviewsOfUser(reviews, uid)
  IN /\ pc[p] = "idle"
     /\ LoggedIn(uid)
     /\ pc' = [pc EXCEPT ![p] = "done"]
     /\ args' = [args EXCEPT ![p] = [kind |-> "profile", user |-> uid]]
     /\ local' = [local EXCEPT ![p] = [trail |-> <<"db.query">>]]
     /\ resp' = [resp EXCEPT ![p] = [status |-> 200, reviews |-> rows, stats |-> Stats(rows)]]
     /\ UNCHANGED <<ServerVars, search, users>>

(* --------------------------------- admin ------------------------------ *)

\* db.session.query(Review, User).join(User).order_by(Review.id.desc()).all()
AllReviewsWithUsers(store) ==
  LET rows == OrderByIdDesc(store)
  IN [i \in 1 .. Len(rows) |-> JoinUser(rows[i])]

\* admin_required, then the whole handler: one query and the page
Admin(p, uid) ==
  /\ pc[p] = "idle"
  /\ LoggedIn(uid)
  /\ pc' = [pc EXCEPT ![p] = "done"]
  /\ args' = [args EXCEPT ![p] = [kind |-> "admin", user |-> uid]]
  /\ IF ~UserRow(uid).is_admin
       THEN /\ resp' = [resp EXCEPT ![p] = [status |-> 302, location |-> <<"/app">>]]
            /\ local' = [local EXCEPT ![p] = [trail |-> <<"admin_required">>]]
       ELSE /\ resp' = [resp EXCEPT ![p] =
                 [status |-> 200, reviews_with_users |-> AllReviewsWithUsers(reviews)]]
            /\ local' = [local EXCEPT ![p] = [trail |-> <<"db.query">>]]
  /\ UNCHANGED <<ServerVars, search, users>>

(* ----------------------------- movie search --------------------------- *)

Digits == {"0", "1", "2", "3", "4", "5", "6", "7", "8", "9"}

\* the characters a totalResults string is made of here
Chars == {"0", "1", "2", "3", "5", "9", "-", "x"}

DigitValue(c) ==
  CASE c = "0" -> 0 [] c = "1" -> 1 [] c = "2" -> 2 [] c = "3" -> 3 [] c = "4" -> 4
    [] c = "5" -> 5 [] c = "6" -> 6 [] c = "7" -> 7 [] c = "8" -> 8 [] c = "9" -> 9

RECURSIVE DecimalValue(_)
DecimalValue(s) ==
  IF s = <<>> THEN 0 ELSE 10 * DecimalValue(SubSeq(s, 1, Len(s) - 1)) + DigitValue(s[Len(s)])

AllDigits(s) == s # <<>> /\ \A i \in 1 .. Len(s) : s[i] \in Digits

\* int(text): an optional sign and decimal digits, else ValueError
IntOfString(s) ==
  IF AllDigits(s) THEN [ok |-> TRUE, value |-> DecimalValue(s)]
  ELSE IF s # <<>> /\ s[1] = "-" /\ AllDigits(Tail(s))
         THEN [ok |-> TRUE, value |-> 0 - DecimalValue(Tail(s))]
         ELSE [ok |-> FALSE, value |-> 0]

\* int(data.get('totalResults', 0)): the default 0 when the field is missing
TotalResults(answer) ==
  IF answer.has_total THEN IntOfString(answer.totalResults) ELSE [ok |-> TRUE, value |-> 0]

\* CeilDiv rounding down
CeilDivFloor(n, d) == n \div d

\* math.ceil(n / d)
CeilDiv(n, d) == IF n % d = 0 THEN n \div d ELSE (n \div d) + 1

RECURSIVE StringsUpTo(_)
\* the strings over Chars of length at most n
StringsUpTo(n) ==
  IF n = 0 THEN {<<>>}
  ELSE LET shorter == StringsUpTo(n - 1)
       IN shorter \cup { Append(s, c) : s \in shorter, c \in Chars }

\* requests.get(api_url).json() for ?s=<search_term>
SearchAnswers ==
  { [Response |-> "True", has_total |-> TRUE, totalResults |-> s] : s \in StringsUpTo(MaxDigits) }
    \cup { [Response |-> "True", has_total |-> FALSE, totalResults |-> <<>>],
           [Response |-> "False", has_total |-> FALSE, totalResults |-> <<>>],
           [Response |-> "RequestException", has_total |-> FALSE, totalResults |-> <<>>] }

\* movie(): the whole handler for one request
Movie(search_term, answer) ==
  LET n == TotalResults(answer)
      outcome ==
        IF search_term = None
          THEN [status |-> 200, total_pages |-> 0, flash |-> None]
        ELSE IF answer.Response = "RequestException"
          THEN [status |-> 200, total_pages |-> 0, flash |-> "connect"]
        ELSE IF answer.Response # "True"
          THEN [status |-> 200, total_pages |-> 0, flash |-> "Error"]
        ELSE IF ~n.ok
          THEN [status |-> 500, total_pages |-> 0, flash |-> None]
          ELSE [status |-> 200, total_pages |-> CeilDiv(n.value, PAGE_SIZE), flash |-> None]
  IN /\ search' = [ran |-> TRUE, search_term |-> search_term, answer |-> answer,
                   total_results |-> n, status |-> outcome.status,
                   total_pages |-> outcome.total_pages, flash |-> outcome.flash]
     /\ UNCHANGED <<ServerVars, pc, args, local, resp, users>>

NextSearch ==
  \E search_term \in {None, "godfather"}, answer \in SearchAnswers : Movie(search_term, answer)

SpecSearch == Init /\ [][NextSearch]_vars

(* ------------------------ requests and the clock ---------------------- *)

\* the response is sent and the worker takes the next request
Return(p) ==
  /\ pc[p] = "done"
  /\ pc' = [pc EXCEPT ![p] = "idle"]
  /\ args' = [args EXCEPT ![p] = NoArgs]
  /\ local' = [local EXCEPT ![p] = NoLocal]
  /\ resp' = [resp EXCEPT ![p] = NoResp]
  /\ UNCHANGED <<ServerVars, search, users>>

\* time.time() moves on
Tick ==
  /\ now + TickSeconds <= MaxTicks * TickSeconds
  /\ now' = now + TickSeconds
  /\ UNCHANGED <<reviews, nextId, cache, settled, removed, lastStored, storedAt, pc, args,
                 local, resp, search, users>>

\* the requests workers P may take, with the form inputs drawn from the
\* users U, the texts T, the is_ajax flags A and the items X; E says whether
\* a call of the cache backend's delete may raise, D whether a commit of
\* predict may
Handlers(P, U, T, A, X, E, D) ==
  \/ \E p \in P, x \in X : \E answer \in DetailAnswers(x) : DetailsGet(p, x, answer)
  \/ \E p \in P : DetailsQuery(p)
  \/ \E p \in P : DetailsSet(p)
  \/ \E p \in P, uid \in U, text \in T, x \in X \cup {None}, is_ajax \in A :
        PredictStart(p, uid, text, x, is_ajax)
  \/ \E p \in P, commit_error \in D : PredictCommit(p, commit_error)
  \/ \E p \in P, backend_error \in E : PredictInvalidate(p, backend_error)
  \/ \E p \in P, uid \in UserIds, rid \in 1 .. MaxReviews : DeleteStart(p, uid, rid)
  \/ \E p \in P, backend_error \in E : DeleteInvalidate(p, backend_error)
  \/ \E p \in P, stale_raises \in BOOLEAN : DeleteCommit(p, stale_raises)
  \/ \E p \in P, uid \in U : Profile(p, uid)
  \/ \E p \in P, uid \in U : Admin(p, uid)
  \/ \E p \in P : Return(p)
  \/ Tick

\* concurrent workers; every review is submitted by user 2 through the
\* is_ajax form, and every request is about one item. The configured backend
\* (CACHE_TYPE 'simple', a dict in the process) does not fail.
Next ==
  Handlers(Procs, {2}, {"this movie was wonderful"}, {TRUE}, {"tt0111161"}, {FALSE}, {FALSE})

Spec == Init /\ [][Next]_vars

\* one worker, serving one request at a time, with every form input and a
\* text of either sentiment
NextSeq ==
  Handlers({1}, UserIds, {"this movie was wonderful", "this movie was terrible"},
           BOOLEAN, {"tt0111161"}, {FALSE}, {FALSE})

SpecSeq == Init /\ [][NextSeq]_vars

\* one worker in front of a cache backend whose delete may raise and a
\* database whose commit may
NextFault == Handlers({1}, {2}, Texts, BOOLEAN, {"tt0111161"}, BOOLEAN, BOOLEAN)

SpecFault == Init /\ [][NextFault]_vars

\* one worker and one user, with every text the classifier is asked about
NextClassify == Handlers({1}, {2}, Texts, BOOLEAN, {"tt0111161"}, {FALSE}, {FALSE})

SpecClassify == Init /\ [][NextClassify]_vars

\* one worker and both items: every request is about either of them or,
\* for a review, about none
NextFrame ==
  Handlers({1}, {2}, {"this movie was wonderful"}, {TRUE}, Items, {FALSE}, {FALSE})

SpecFrame == Init /\ [][NextFrame]_vars

\* concurrent detail reads and submissions for one item within the lifetime
\* of an entry, while the upstream answers with either metadata
NextRace ==
  \/ \E p \in Procs : \E answer \in DetailAnswers("tt0111161") :
        answer.Response = "True" /\ DetailsGet(p, "tt0111161", answer)
  \/ \E p \in Procs : DetailsQuery(p)
  \/ \E p \in Procs : DetailsSet(p)
  \/ \E p \in Procs : PredictStart(p, 2, "this movie was wonderful", "tt0111161", TRUE)
  \/ \E p \in Procs : PredictCommit(p, FALSE)
  \/ \E p \in Procs : PredictInvalidate(p, FALSE)
  \/ \E p \in Procs : Return(p)

SpecRace == Init /\ [][NextRace]_vars

\* one worker on a new database: accounts are registered, and the accounts
\* with the ids 1 and 2 make requests about one item
NextAccounts ==
  \/ Handlers({1}, UserIds, {"this movie was wonderful"}, {TRUE}, {"tt0111161"},
              {FALSE}, {FALSE})
  \/ \E email \in Emails : Register(1, email)

SpecAccounts == InitEmpty /\ [][NextAccounts]_vars

(* ------------------------------- claims ------------------------------- *)

\* the Review rows of a detail view's joined list
ViewReviews(view) ==
  { view.reviews_with_users[i][1] : i \in 1 .. Len(view.reviews_with_users) }

ViewIds(view) == { r.id : r \in ViewReviews(view) }

\* request p has finished a movie_details call that showed catalog metadata
DetailsDone(p) ==
  /\ pc[p] = "done"
  /\ args[p].kind = "movie_details"
  /\ resp[p].movie_data # NoMovieData

\* the cache dict holds an unexpired entry under the key of x's detail page
LiveEntry(x) ==
  /\ <<"view/", <<"/app/movie/", x>>>> \in DOMAIN cache
  /\ cache[<<"view/", <<"/app/movie/", x>>>>].expires > now

\* C1: a movie_details(X) request that starts after a predict for X has
\* finished returns a joined list containing the review that predict created
\* (as long as the review is still in the store).
C1_CreateCoherence ==
  \A p \in Procs :
    DetailsDone(p) =>
      \A r \in reviews :
        (r.id \in local[p].seen /\ r.imdb_id = args[p].imdb_id) => r \in ViewReviews(resp[p])

\* C2: a movie_details(X) request that starts after delete_review(r) has
\* finished returns a joined list without r.
C2_DeleteCoherence ==
  \A p \in Procs :
    DetailsDone(p) => \A id \in local[p].gone : id \notin ViewIds(resp[p])

\* C3: once a predict or delete_review for X has finished, the cache holds no
\* live entry for X that was built from the store as it was before: none that
\* lacks the created review, none that still lists the deleted one.
C3_NoStaleEntry ==
  \A x \in Items :
    (LiveEntry(x) /\ cache[RequestKey(x)].value.movie_data # NoMovieData) =>
      /\ \A r \in reviews :
           (r.id \in settled /\ r.imdb_id = x) => r \in ViewReviews(cache[RequestKey(x)].value)
      /\ \A id \in removed : id \notin ViewIds(cache[RequestKey(x)].value)

\* C4: the cache never holds the no-data view: a lookup that answered
\* Response False or raised leaves no entry for X.
C4_NoNegativeCaching ==
  \A k \in DOMAIN cache : cache[k].value.movie_data # NoMovieData

\* C5: a movie_details(X) request that finds a live entry for X finishes in
\* its cache.get step, returns exactly the view the latest population of X
\* stored, and consults neither the upstream lookup nor the review store; so
\* it returns the same data as the call that populated the entry.
C5_CacheHit ==
  [][\A p \in Procs, x \in Items :
       ( /\ pc[p] = "idle"
         /\ args'[p].kind = "movie_details"
         /\ args'[p].imdb_id = x
         /\ LiveEntry(x) )
       => ( /\ pc'[p] = "done"
            /\ resp'[p] = lastStored[x]
            /\ resp'[p] = cache[RequestKey(x)].value
            /\ local'[p].trail = <<"cache.get">>
            /\ cache' = cache
            /\ reviews' = reviews )]_vars

\* C5 witness: a finished request that was answered from the cache with the
\* view of the latest population, reviews included
C5_Witness ==
  \E p \in Procs :
    /\ DetailsDone(p)
    /\ local[p].trail = <<"cache.get">>
    /\ resp[p] = lastStored[args[p].imdb_id]
    /\ resp[p].reviews_with_users # <<>>

\* request p has finished a predict call
PredictDone(p) == pc[p] = "done" /\ args[p].kind = "predict"

InTrail(p, step) == \E i \in 1 .. Len(local[p].trail) : local[p].trail[i] = step

\* C6: a predict whose cache invalidation raised after the commit still
\* answers with success, and its Review row stays in the store.
C6_InvalidationFailureTolerated ==
  \A p \in Procs :
    (PredictDone(p) /\ InTrail(p, "Persisted") /\ InTrail(p, "CacheError")) =>
      /\ resp[p].status \in {200, 302}
      /\ local[p].review \in reviews

\* the steps the submission flow prescribes for a request's inputs
ExpectedTrail(a) ==
  <<"Received", "Classified", "Persisted">>
    \o (IF a.imdb_id # None THEN <<"Cache Invalidated">> ELSE <<>>)
    \o <<"Reported">>

\* C7: every persisted submission, with or without an item identifier and
\* with or without is_ajax, runs Received, Classified, Persisted, Cache
\* Invalidated (only with an item identifier), Reported, and answers success.
C7_SubmissionFlow ==
  \A p \in Procs :
    (PredictDone(p) /\ InTrail(p, "Persisted")) =>
      /\ local[p].trail = ExpectedTrail(args[p])
      /\ resp[p].status \in {200, 302}

\* request p has finished a profile call
ProfileDone(p) == pc[p] = "done" /\ args[p].kind = "profile"

\* the rows of the store that belong to request p's user
Mine(p) == { r \in reviews : r.user_id = args[p].user }

\* C8: profile's stats: total is the number of the user's reviews, positive
\* the number of them with sentiment Positive, negative the rest; each
\* percentage num/den equals 100 * count / total when total > 0 and is 0 when
\* total = 0.
C8_ProfileStats ==
  \A p \in Procs :
    ProfileDone(p) =>
      LET st == resp[p].stats
          positives == { r \in Mine(p) : r.sentiment = "Positive" }
      IN /\ st.total = Cardinality(Mine(p))
         /\ st.total = Len(resp[p].reviews)
         /\ st.positive = Cardinality(positives)
         /\ st.negative = st.total - st.positive
         /\ st.total > 0 =>
              /\ st.positive_percent[2] > 0
              /\ st.negative_percent[2] > 0
              /\ st.positive_percent[1] * st.total = 100 * st.positive * st.positive_percent[2]
              /\ st.negative_percent[1] * st.total = 100 * st.negative * st.negative_percent[2]
         /\ st.total = 0 =>
              /\ st.positive_percent[1] = 0
              /\ st.negative_percent[1] = 0

\* C8 witness: a profile of a user with a positive and a negative review
C8_Witness ==
  \E p \in Procs :
    /\ ProfileDone(p)
    /\ resp[p].stats.positive >= 1
    /\ resp[p].stats.negative >= 1
    /\ resp[p].stats.positive_percent = <<50, 1>>

\* the search ran with a term and the upstream answered Response True
SearchSucceeded ==
  /\ search.ran
  /\ search.search_term # None
  /\ search.answer.Response = "True"

C10_MalformedCountIsZero ==
  ( /\ SearchSucceeded
    /\ \/ ~search.answer.has_total
       \/ ~search.total_results.ok
       \/ search.total_results.value < 0 )
  => (search.status = 200 /\ search.total_pages = 0)

\* C11: every Review row of the store has sentiment Positive or Negative and
\* a confidence between 0 and 100 percent that is the larger of the two class
\* probabilities the classifier gives for its content; and no step of any
\* handler changes a row that is in the store before and after the step:
\* rows are only added or removed.
C11_ReviewsImmutable ==
  [][ /\ \A r \in reviews' :
           /\ r.sentiment \in {"Positive", "Negative"}
           /\ r.confidence \in 0 .. 100
           /\ r.confidence \in {PredictProba(r.content)[1], PredictProba(r.content)[2]}
           /\ r.confidence >= PredictProba(r.content)[1]
           /\ r.confidence >= PredictProba(r.content)[2]
      /\ \A r \in reviews, q \in reviews' : r.id = q.id => r = q ]_vars

\* C11 witness: a Negative row with confidence 80 is still in the store after
\* its predict finished, another row was deleted and the admin page listed it
C11_Witness ==
  \E r \in reviews, p \in Procs :
    /\ r.id \in settled
    /\ removed # {}
    /\ r.sentiment = "Negative"
    /\ r.confidence = 80
    /\ pc[p] = "done"
    /\ args[p].kind = "admin"
    /\ resp[p].status = 200
    /\ Len(resp[p].reviews_with_users) = 1

\* C12: the label and the confidence of a finished predict come from one
\* two-class posterior of its text: the label is Positive exactly when class
\* index 1 has the strictly larger probability (the argmax, index 0 on a
\* tie), the confidence is the probability of that argmax class, and so it
\* lies between 50 and 100 percent; the is_ajax answer reports the same.
C12_LabelMatchesPosterior ==
  \A p \in Procs :
    (PredictDone(p) /\ InTrail(p, "Persisted")) =>
      LET probabilities == PredictProba(args[p].review_text)
          argmax == IF probabilities[2] > probabilities[1] THEN 2 ELSE 1
          row == local[p].review
      IN /\ probabilities[1] + probabilities[2] = 100
         /\ row.sentiment = "Positive" <=> argmax = 2
         /\ row.sentiment = "Negative" <=> argmax = 1
         /\ row.confidence = probabilities[argmax]
         /\ row.confidence >= 50 /\ row.confidence <= 100
         /\ resp[p].status = 200 =>
              /\ resp[p].json.prediction = argmax - 1
              /\ resp[p].json.prediction_text = row.sentiment
              /\ resp[p].json.confidence[1] = probabilities[argmax]

\* C12 witness: a tie answered Negative with confidence 50 through is_ajax,
\* while a Positive row with confidence 90 is in the store
C12_Witness ==
  \E p \in Procs :
    /\ PredictDone(p)
    /\ resp[p].status = 200
    /\ args[p].review_text = "this movie was a movie"
    /\ resp[p].json.prediction_text = "Negative"
    /\ resp[p].json.confidence[1] = 50
    /\ \E r \in reviews : r.sentiment = "Positive" /\ r.confidence = 90

\* request p takes its cache.delete_memoized step for item x, and the call
\* returns
Invalidates(p, x) ==
  /\ pc[p] \in {"pr_invalidate", "dr_invalidate"}
  /\ pc'[p] # pc[p]
  /\ local[p].review.imdb_id = x
  /\ ~(resp'[p].status = 500 /\ resp'[p].error = "cache")

\* the entry the detail page of y is served from, NoRv when there is none
EntryOf(c, y) == IF RequestKey(y) \in DOMAIN c THEN c[RequestKey(y)] ELSE NoRv

\* C13: an invalidation for item X leaves no cache entry for X (whether or
\* not there was one, and without an error), a second invalidation right
\* after it would change nothing, and the entry of every other item is as
\* it was.
C13_InvalidateRemoves ==
  [][\A p \in Procs, x \in Items :
       Invalidates(p, x) =>
         /\ EntryOf(cache', x) = NoRv
         /\ CacheDelete(cache', DeleteMemoizedKey(x)) = cache'
         /\ \A y \in Items \ {x} : EntryOf(cache', y) = EntryOf(cache, y)]_vars

\* request p is a submission without an item identifier, or the deletion of
\* a review whose imdb_id is null
TiedToNoItem(p) ==
  \/ args[p].kind = "predict" /\ args[p].imdb_id = None
  \/ /\ args[p].kind = "delete_review"
     /\ "review" \in DOMAIN local[p]
     /\ local[p].review.imdb_id = None

\* C14: no step of a submission without an item identifier, and no step of
\* a deletion of a review with a null imdb_id, changes the cache or reaches
\* an invalidation; and an invalidation for the item X of a review leaves the
\* entry of every other item as it was.
C14_InvalidationFrame ==
  [][\A p \in Procs :
       /\ (pc'[p] # pc[p] /\ (TiedToNoItem(p) \/ TiedToNoItem(p)')) =>
            /\ cache' = cache
            /\ pc'[p] \notin {"pr_invalidate", "dr_invalidate"}
       /\ \A x \in Items :
            Invalidates(p, x) =>
              \A y \in Items \ {x} : EntryOf(cache', y) = EntryOf(cache, y)]_vars

\* C14 witness: a review without an item identifier was submitted and then
\* deleted while the cache held the entries of both items, and a review of
\* one of the items was created as well
C14_Witness ==
  \E p \in Procs :
    /\ pc[p] = "done"
    /\ args[p].kind = "delete_review"
    /\ TiedToNoItem(p)
    /\ InTrail(p, "delete")
    /\ \A y \in Items : EntryOf(cache, y) # NoRv
    /\ \E r \in reviews : r.imdb_id \in Items /\ r.id \in settled

\* C15: a delete_review for a review id that is not in the store (the handler
\* is reached: the caller passed admin_required) ends at once with 404 and
\* changes neither the review store nor the cache.
C15_DeleteMissingIsNotFound ==
  [][\A p \in Procs :
       ( /\ pc[p] = "idle"
         /\ args'[p].kind = "delete_review"
         /\ UserRow(args'[p].user).is_admin
         /\ \A r \in reviews : r.id # args'[p].review_id )
       => ( /\ pc'[p] = "done"
            /\ resp'[p].status = 404
            /\ reviews' = reviews
            /\ nextId' = nextId
            /\ cache' = cache )]_vars

\* C15 witness: the admin's request for a missing id was answered 404 while
\* the store held another review and the cache an entry
C15_Witness ==
  \E p \in Procs :
    /\ pc[p] = "done"
    /\ args[p].kind = "delete_review"
    /\ UserRow(args[p].user).is_admin
    /\ resp[p].status = 404
    /\ reviews # {}
    /\ \A r \in reviews : r.id # args[p].review_id
    /\ \E x \in Items : LiveEntry(x)

\* C16: when the commit of a predict raises, the request ends there with a
\* failure status, the review table is as it was before (no row of the
\* submission, no id used up), and the request neither changes the cache nor
\* reaches its invalidation step.
C16_CommitFailureAborts ==
  [][\A p \in Procs :
       (pc[p] = "pr_commit" /\ pc'[p] # pc[p] /\ InTrail(p, "CommitError")') =>
         /\ pc'[p] = "done"
         /\ resp'[p].status = 500
         /\ reviews' = reviews
         /\ \A r \in reviews' : r.id # local'[p].review.id
         /\ nextId' = nextId
         /\ cache' = cache
         /\ ~InTrail(p, "Cache Invalidated")'
         /\ ~InTrail(p, "Reported")']_vars

\* C16 witness: a submission for an item with a live cache entry failed in
\* its commit and was answered 500, after an earlier submission went through
C16_Witness ==
  \E p \in Procs :
    /\ PredictDone(p)
    /\ InTrail(p, "CommitError")
    /\ args[p].imdb_id \in Items
    /\ LiveEntry(args[p].imdb_id)
    /\ resp[p].status = 500
    /\ Cardinality(reviews) = 1

\* request p starts a movie_details call for item x in this step
DetailsStarts(p, x) ==
  /\ pc[p] = "idle"
  /\ args'[p].kind = "movie_details"
  /\ args'[p].imdb_id = x

\* C17: a movie_details(X) call is answered from the cache only within
\* 86400 seconds of the entry's population; a call 86400 seconds or more
\* after the population is a miss that asks the upstream again and, when it
\* has metadata, the review store; and the cache.set that ends a miss stores
\* the returned view with an expiry of 86400 seconds from then.
C17_EntryExpires ==
  [][\A p \in Procs, x \in Items :
       /\ (DetailsStarts(p, x) /\ pc'[p] = "done") =>
            /\ storedAt[x] >= 0
            /\ now < storedAt[x] + CACHE_TIMEOUT
       /\ (DetailsStarts(p, x) /\ storedAt[x] >= 0 /\ now >= storedAt[x] + CACHE_TIMEOUT) =>
            /\ pc'[p] \in {"md_query", "md_set"}
            /\ local'[p].trail = <<"cache.get", "requests.get">>
       /\ (pc[p] = "md_set" /\ pc'[p] = "done" /\ args[p].imdb_id = x) =>
            /\ EntryOf(cache', x) = [value |-> resp'[p], expires |-> now + CACHE_TIMEOUT]
            /\ storedAt'[x] = now
            /\ resp'[p].movie_data # NoMovieData =>
                 local'[p].trail = <<"cache.get", "requests.get", "db.query", "cache.set">>]_vars

\* C17 witness: 86400 seconds after the entry of an item was stored, a call
\* for it missed, asked the upstream and the review store again and is about
\* to store the new entry
C17_Witness ==
  \E p \in Procs, x \in Items :
    /\ pc[p] = "md_set"
    /\ args[p].imdb_id = x
    /\ storedAt[x] = 0
    /\ now = CACHE_TIMEOUT
    /\ EntryOf(cache, x) # NoRv
    /\ EntryOf(cache, x).expires = now
    /\ local[p].trail = <<"cache.get", "requests.get", "db.query">>
    /\ local[p].rv # EntryOf(cache, x).value

\* C18: under every interleaving, a movie_details call for X answers either
\* with the whole entry that was in the cache (the view one earlier
\* population stored, metadata and review list together), leaving the cache
\* alone, or with the view of its own population: the metadata of its own
\* upstream lookup with the list of its own review query, which is also what
\* it stores as one entry. Every entry in the cache is the view of one
\* population.
C18_NoMixedView ==
  [][\A p \in Procs, x \in Items :
       /\ (pc'[p] = "done" /\ pc[p] # "done" /\ args'[p].kind = "movie_details"
             /\ args'[p].imdb_id = x) =>
            \/ /\ pc[p] = "idle"
               /\ resp'[p] = EntryOf(cache, x).value
               /\ resp'[p] = lastStored[x]
               /\ cache' = cache
            \/ /\ pc[p] = "md_set"
               /\ resp'[p].movie_data = local[p].movie_data
               /\ resp'[p].reviews_with_users = local[p].reviews
               /\ EntryOf(cache', x).value = resp'[p]
               /\ lastStored'[x] = resp'[p]
       /\ EntryOf(cache', x) # NoRv => EntryOf(cache', x).value = lastStored'[x]]_vars

\* C18 witness: while one call is between its upstream lookup and its
\* cache.set with a view of its own, another call was answered with the
\* complete entry of an earlier population that lists a review, and the two
\* views differ
C18_Witness ==
  \E p, q \in Procs :
    /\ p # q
    /\ DetailsDone(p)
    /\ local[p].trail = <<"cache.get">>
    /\ resp[p] = lastStored[args[p].imdb_id]
    /\ resp[p].reviews_with_users # <<>>
    /\ pc[q] = "md_set"
    /\ args[q].imdb_id = args[p].imdb_id
    /\ local[q].rv # resp[p]
    /\ local[q].movie_data # NoMovieData
    /\ local[q].movie_data # resp[p].movie_data

\* C19: a delete_review request of a user whose is_admin is false ends at
\* once with a redirect, deletes nothing and leaves the cache alone, and no
\* such request is ever at the handler's invalidate or delete step; a row
\* leaves the review store only in the delete step of an admin's
\* delete_review; every account's is_admin is true exactly when its email is
\* admin@admin.com, and the user table changes only by a registration adding
\* a row: no row is changed or removed.
C19_OnlyAdminsDelete ==
  [][/\ \A p \in Procs :
          /\ ( /\ pc[p] = "idle"
               /\ args'[p].kind = "delete_review"
               /\ ~UserRow(args'[p].user).is_admin )
             => ( /\ pc'[p] = "done"
                  /\ resp'[p] = [status |-> 302, location |-> <<"/app">>]
                  /\ reviews' = reviews
                  /\ cache' = cache )
          /\ pc'[p] \in {"dr_invalidate", "dr_commit"} =>
               \A u \in users' : u.id = args'[p].user => u.is_admin
     /\ (\E r \in reviews : r \notin reviews') =>
          \E p \in Procs :
            /\ pc[p] = "dr_commit"
            /\ pc'[p] = "done"
            /\ args[p].kind = "delete_review"
            /\ UserRow(args[p].user).is_admin
     /\ \A u \in users' : u.is_admin <=> u.email = "admin@admin.com"
     /\ users \subseteq users'
     /\ users' # users =>
          \E p \in Procs : pc[p] = "idle" /\ args'[p].kind = "register"]_vars

\* C19 witness: with the three accounts registered in the run, a user who is
\* not an admin asked to delete a review that is in the store and was
\* redirected, after the admin had deleted another one
C19_Witness ==
  \E p \in Procs :
    /\ pc[p] = "done"
    /\ args[p].kind = "delete_review"
    /\ ~UserRow(args[p].user).is_admin
    /\ \E r \in reviews : r.id = args[p].review_id
    /\ resp[p].status = 302
    /\ removed # {}
    /\ Cardinality(users) = 3
    /\ \E u \in users : u.email = "Admin@Admin.com" /\ ~u.is_admin
    /\ \E u \in users : u.is_admin

====
